---- MODULE Spec2Model ----
(***************************************************************************)
(* Stride scheduler, dispatch loop and synchronization primitives of the   *)
(* kernel (os/src/task/manager.rs, os/src/task/processor.rs,               *)
(* os/src/sync/mutex.rs, os/src/sync/semaphore.rs).                        *)
(*                                                                         *)
(* One processor, cooperative scheduling: a kernel entry runs without      *)
(* interleaving until it suspends (yield, block, exit), so every action    *)
(* below is one kernel entry up to its return or its suspension point.     *)
(***************************************************************************)
EXTENDS Integers, Sequences, FiniteSets, TLC

(* ------------------------------ bounds -------------------------------- *)
\* number of threads of the process; tids are 0 .. NumThreads - 1
NumThreads == 3
\* threads created in the scheduler-only specification
SchedThreads == 2
\* how many times one thread may be put on the ready queue after start-up
MaxAdds == 2
\* largest res_count a semaphore is created with
MaxResCount == 1
\* largest value the semaphore count may be raised to by unpaired up() calls
MaxCount == 2
\* threads created where the calls come in any order
AnyThreads == 2
\* scheduling rounds followed in the dispatch-share experiment
MaxRounds == 1000
\* rounds after which the dispatch shares are compared
ShareWarmup == 24

(* --------------------------- program constants ------------------------ *)
\* manager.rs:8   const BIG_STRIDE: usize = 1 << 30;
BIG_STRIDE == 1073741824
\* priority of a freshly created thread (TaskControlBlock::new, not in src/)
InitPriority == 16

Tids == 0 .. (NumThreads - 1)
\* Option::None for Option<Arc<TaskControlBlock>>
None == -1

(* ------------------- usize arithmetic (64-bit target) ----------------- *)
\* A usize is kept as three limbs, value = (top * 2^30 + mid) * 2^30 + lo,
\* with lo, mid < 2^30 and top < 2^4: 30 + 30 + 4 = 64 bits.
Limb == 2^30
TopMod == 2^4

ZeroStride == [top |-> 0, mid |-> 0, lo |-> 0]

\* s + p on usize, wrapping at 2^64 (p < 2^31)
WrappingAdd(s, p) ==
    LET lo  == s.lo + p
        mid == s.mid + (lo \div Limb)
        top == s.top + (mid \div Limb)
    IN  [top |-> top % TopMod, mid |-> mid % Limb, lo |-> lo % Limb]

\* a > b on usize
StrideGT(a, b) ==
    \/ a.top > b.top
    \/ a.top = b.top /\ a.mid > b.mid
    \/ a.top = b.top /\ a.mid = b.mid /\ a.lo > b.lo

StrideLE(a, b) == ~StrideGT(a, b)

\* s + p does not fit a usize
Overflows(s, p) ==
    LET lo  == s.lo + p
        mid == s.mid + (lo \div Limb)
    IN  s.top + (mid \div Limb) >= TopMod

(* ------------------------------- state -------------------------------- *)
VARIABLES
    current,        \* Processor.current: the running thread, or None
    ready_queue,    \* TaskManager.ready_queue: <<[task, stride], ...>>
    task_status,    \* TaskControlBlockInner.task_status of each thread
    priority,       \* TaskControlBlockInner.priority of each thread
    stride,         \* TaskControlBlockInner.stride of each thread
    pc,             \* the kernel function each thread is suspended in
    ret,            \* return value of the last system call
    panicked,       \* the kernel has hit a fatal fault
    blocking,       \* MutexBlockingInner: locked, allocated_to, wait_queue
    spin,           \* MutexSpinInner: locked, allocated_to
    sem,            \* SemaphoreInner: count, allocated_to, wait_queue
    res_count,      \* the argument the semaphore was created with
    created,        \* the primitives the process has created
    borrowed,       \* the exclusive-access cells that are borrowed
    holders,        \* history: threads between a return from lock() and unlock()
    downs,          \* history: completed down() calls minus up() calls
    sem_log,        \* history: the semaphore calls made so far, in order
    units,          \* history: each thread's completed down() calls minus its up() calls
    adds,           \* history: how often each thread was enqueued since start-up
    dispatches,     \* history: how often each thread was dispatched
    rounds          \* history: number of dispatches made by run_tasks

schedVars == <<current, ready_queue, task_status, priority, stride, pc, ret, panicked>>
primVars  == <<blocking, spin, sem, res_count, created>>
syncVars  == <<primVars, borrowed>>
logVars   == <<sem_log, units>>
histVars  == <<holders, downs, logVars, adds, dispatches, rounds>>
vars      == <<schedVars, syncVars, histVars>>

(* ------------------------ exclusive-access cells ---------------------- *)
\* processor.rs:53  PROCESSOR: UPSafeCell<Processor>
PROCESSOR == <<"PROCESSOR", None>>
\* manager.rs:44  TASK_MANAGER: UPSafeCell<TaskManager>
TASK_MANAGER == <<"TASK_MANAGER", None>>
\* mutex.rs:20  MutexSpin.inner
MutexSpin_inner == <<"MutexSpin.inner", None>>
\* mutex.rs:93  MutexBlocking.inner
MutexBlocking_inner == <<"MutexBlocking.inner", None>>
\* semaphore.rs:16  Semaphore.inner
Semaphore_inner == <<"Semaphore.inner", None>>
\* the cell behind task.inner_exclusive_access() of thread t
task_inner(t) == <<"TaskControlBlock.inner", t>>

\* UPSafeCell::exclusive_access and the drop of the RefMut it returned, as
\* the events of a kernel entry
exclusive_access(cell) == [op |-> "borrow", cell |-> cell]
drop(cell) == [op |-> "drop", cell |-> cell]

\* The cells held after the events of a kernel entry, starting with the
\* cells of held; exclusive_access() of a cell that is held is a fatal fault
\* (RefCell::borrow_mut panics), and the entry stops there.
RECURSIVE Replay(_, _)
Replay(held, events) ==
    IF events = <<>> THEN [held |-> held, fault |-> FALSE]
    ELSE LET e == Head(events)
         IN  IF e.op = "borrow"
             THEN IF e.cell \in held
                  THEN [held |-> held, fault |-> TRUE]
                  ELSE Replay(held \cup {e.cell}, Tail(events))
             ELSE Replay(held \ {e.cell}, Tail(events))

\* the kernel stops with a fatal fault
Panic ==
    /\ panicked' = TRUE
    /\ UNCHANGED <<current, ready_queue, task_status, priority, stride, pc, ret,
                   blocking, spin, sem, res_count, created, holders, downs, adds,
                   dispatches, rounds>>

\* a kernel entry with the state change A and the cell events of its code
WithCells(events, A) ==
    LET r == Replay(borrowed, events)
    IN  /\ borrowed' = r.held
        /\ IF r.fault THEN Panic /\ UNCHANGED logVars ELSE A

\* the same for the semaphore calls, which leave sem_log and units to their caller
SemWithCells(events, A) ==
    LET r == Replay(borrowed, events)
    IN  /\ borrowed' = r.held
        /\ IF r.fault THEN Panic ELSE A

(* ----------------------------- scheduler ------------------------------ *)
\* a pass that grows with the priority instead of shrinking
pass_proportional(prio) == (BIG_STRIDE \div 32) * prio

\* manager.rs:26  let pass = BIG_STRIDE / task_inner.priority;
pass(prio) == BIG_STRIDE \div prio

\* position() with the comparison turned round: |(_, s)| s < &new_stride
position_less(rq, new_stride) ==
    LET earlier == {i \in 1 .. Len(rq) : StrideGT(new_stride, rq[i].stride)}
    IN  IF earlier = {} THEN 0 ELSE CHOOSE i \in earlier : \A j \in earlier : i <= j

\* manager.rs:30  ready_queue.iter().position(|(_, s)| s > &new_stride)
\* 0 stands for Option::None
position(rq, new_stride) ==
    LET later == {i \in 1 .. Len(rq) : StrideGT(rq[i].stride, new_stride)}
    IN  IF later = {} THEN 0 ELSE CHOOSE i \in later : \A j \in later : i <= j

\* manager.rs:30-34  insert before the first entry with a greater stride
insert(rq, task, new_stride) ==
    LET index == position(rq, new_stride)
        e     == [task |-> task, stride |-> new_stride]
    IN  IF index # 0
        THEN SubSeq(rq, 1, index - 1) \o <<e>> \o SubSeq(rq, index, Len(rq))
        ELSE Append(rq, e)

\* manager.rs:27-34  the stride is raised and the thread is enqueued
enqueue(task) ==
    LET new_stride == WrappingAdd(stride[task], pass(priority[task]))
    IN  /\ stride' = [stride EXCEPT ![task] = new_stride]
        /\ ready_queue' = insert(ready_queue, task, new_stride)
        /\ adds' = [adds EXCEPT ![task] = IF @ < MaxAdds THEN @ + 1 ELSE @]
        /\ UNCHANGED panicked

\* manager.rs:24-35, 49-52  TaskManager::add through add_task.
\* A division by zero is a fatal fault.  stride + pass beyond usize::MAX is a
\* fatal fault in a build with overflow checks and wraps in a build without.
add(task) ==
    IF priority[task] = 0
    THEN /\ panicked' = TRUE
         /\ UNCHANGED <<ready_queue, stride, adds>>
    ELSE IF Overflows(stride[task], pass(priority[task]))
         THEN \/ /\ panicked' = TRUE
                 /\ UNCHANGED <<ready_queue, stride, adds>>
              \/ enqueue(task)
         ELSE enqueue(task)

\* manager.rs:55-58  fetch_task
fetch_task_cells == <<exclusive_access(TASK_MANAGER), drop(TASK_MANAGER)>>

\* manager.rs:49-52, 25-29  add_task and the TCB access of add
add_task_cells(task) ==
    <<exclusive_access(TASK_MANAGER), exclusive_access(task_inner(task)),
      drop(task_inner(task)), drop(TASK_MANAGER)>>

\* manager.rs:37-39  TaskManager::fetch: pop_front
fetch(rq) == IF rq = <<>> THEN None ELSE Head(rq).task

InQueue(q, t) == \E i \in 1 .. Len(q) : q[i] = t
InReady(t) == \E i \in 1 .. Len(ready_queue) : ready_queue[i].task = t

(* ------------------------------- Init --------------------------------- *)
\* the ready queue after add() of the threads of q, in order, each for the
\* first time (stride 0 + pass), onto rq
RECURSIVE first_adds(_, _)
first_adds(rq, q) ==
    IF q = <<>> THEN rq
    ELSE first_adds(insert(rq, Head(q), WrappingAdd(ZeroStride, pass(InitPriority))),
                 Tail(q))

\* stride of the main thread after its second add()
MainStride == WrappingAdd(WrappingAdd(ZeroStride, pass(InitPriority)), pass(InitPriority))

\* The state after start-up: the main thread (tid 0) was added and dispatched,
\* created the threads 1 .. k-1 (add() of each) and yielded (add() again); the
\* idle loop is about to fetch.  Threads k .. NumThreads-1 are never created.
\* The semaphore has been created by Semaphore::new(n) (semaphore.rs:27-38).
InitWith(n, k, made) ==
    /\ current = None
    /\ ready_queue = insert(first_adds(<<>>, [i \in 1 .. (k - 1) |-> i]), 0, MainStride)
    /\ task_status = [t \in Tids |-> IF t < k THEN "Ready" ELSE "New"]
    /\ priority = [t \in Tids |-> InitPriority]
    /\ stride = [t \in Tids |-> IF t = 0 THEN MainStride
                                ELSE IF t < k
                                     THEN WrappingAdd(ZeroStride, pass(InitPriority))
                                     ELSE ZeroStride]
    /\ pc = [t \in Tids |-> "user"]
    /\ ret = 0
    /\ panicked = FALSE
    /\ blocking = [locked |-> FALSE, allocated_to |-> 0, wait_queue |-> <<>>]
    /\ spin = [locked |-> FALSE, allocated_to |-> 0]
    /\ res_count = n
    /\ created = made
    /\ borrowed = {}
    /\ sem = [count |-> res_count, allocated_to |-> {}, wait_queue |-> <<>>]
    /\ holders = [blocking |-> {}, spin |-> {}]
    /\ downs = 0
    /\ sem_log = <<>>
    /\ units = [t \in Tids |-> 0]
    /\ adds = [t \in Tids |-> 0]
    /\ dispatches = [t \in Tids |-> 0]
    /\ rounds = 0


(* ------------------------ processor / dispatch ------------------------ *)
\* processor.rs:87-89  take_current_task
take_current_task_cells == <<exclusive_access(PROCESSOR), drop(PROCESSOR)>>

\* processor.rs:92-94  current_task
current_task_cells == <<exclusive_access(PROCESSOR), drop(PROCESSOR)>>

\* current_task_id: the tid of the current thread, read from its TCB
current_task_id_cells(t) ==
    current_task_cells \o <<exclusive_access(task_inner(t)), drop(task_inner(t))>>

\* processor.rs:120-124  count_syscall
count_syscall_cells(t) ==
    current_task_cells \o <<exclusive_access(task_inner(t)), drop(task_inner(t))>>

\* processor.rs:111-118  schedule, up to its __switch
schedule_cells == <<exclusive_access(PROCESSOR), drop(PROCESSOR)>>

\* processor.rs:60-76  one turn of the loop of run_tasks, up to its __switch
\* or to the end of the turn
run_tasks_cells(task) ==
    <<exclusive_access(PROCESSOR)>> \o fetch_task_cells
    \o (IF task # None
        THEN <<exclusive_access(task_inner(task)), drop(task_inner(task))>>
        ELSE <<>>)
    \o <<drop(PROCESSOR)>>

\* processor.rs:58-84  one turn of the loop of run_tasks
run_tasks ==
    /\ ~panicked
    /\ current = None
    /\ LET task == fetch(ready_queue)
       IN  WithCells(run_tasks_cells(task),
             /\ IF task # None
                THEN /\ ready_queue' = Tail(ready_queue)
                     /\ task_status' = [task_status EXCEPT ![task] = "Running"]
                     /\ current' = task
                     /\ dispatches' = [dispatches EXCEPT ![task] =
                                          IF @ < MaxRounds THEN @ + 1 ELSE @]
                     /\ rounds' = (IF rounds < MaxRounds THEN rounds + 1 ELSE rounds)
                ELSE \* warn!("no tasks available in run_tasks")
                     UNCHANGED <<ready_queue, task_status, current, dispatches, rounds>>
             /\ UNCHANGED <<priority, stride, pc, ret, panicked, blocking, spin, sem,
                            res_count, created, holders, downs, logVars, adds>>)

\* suspend_current_and_run_next: take the current thread, mark it Ready,
\* add it to the ready queue, schedule() back to the idle control flow
suspend_current_and_run_next(t) ==
    /\ current' = None
    /\ task_status' = [task_status EXCEPT ![t] = "Ready"]
    /\ add(t)

\* block_current_and_run_next: take the current thread, mark it Blocked,
\* schedule() back to the idle control flow
block_current_and_run_next(t) ==
    /\ current' = None
    /\ task_status' = [task_status EXCEPT ![t] = "Blocked"]

\* wakeup_task: mark the thread Ready and add it to the ready queue
wakeup_task(t) ==
    /\ task_status' = [task_status EXCEPT ![t] = "Ready"]
    /\ add(t)

\* the cells of suspend_current_and_run_next, up to the __switch of schedule
suspend_current_and_run_next_cells(t) ==
    take_current_task_cells
    \o <<exclusive_access(task_inner(t)), drop(task_inner(t))>>
    \o add_task_cells(t) \o schedule_cells

\* the cells of block_current_and_run_next, up to the __switch of schedule
block_current_and_run_next_cells(t) ==
    take_current_task_cells
    \o <<exclusive_access(task_inner(t)), drop(task_inner(t))>>
    \o schedule_cells

\* the cells of exit_current_and_run_next, up to the __switch of schedule
exit_current_and_run_next_cells(t) ==
    take_current_task_cells
    \o <<exclusive_access(task_inner(t)), drop(task_inner(t))>>
    \o schedule_cells

\* the cells of wakeup_task
wakeup_task_cells(t) ==
    <<exclusive_access(task_inner(t)), drop(task_inner(t))>> \o add_task_cells(t)

\* a thread that is running user code and may enter the kernel
Running(t) == ~panicked /\ current = t /\ pc[t] = "user"

\* process.rs:59-64  sys_yield
sys_yield(t) ==
    /\ Running(t)
    /\ WithCells(count_syscall_cells(t) \o suspend_current_and_run_next_cells(t),
          /\ suspend_current_and_run_next(t)
          /\ ret' = 0
          /\ UNCHANGED <<priority, pc, primVars, holders, downs, logVars, dispatches,
                         rounds>>)

\* process.rs:51-56  sys_exit
sys_exit(t) ==
    /\ Running(t)
    /\ WithCells(count_syscall_cells(t) \o exit_current_and_run_next_cells(t),
          /\ current' = None
          /\ task_status' = [task_status EXCEPT ![t] = "Exited"]
          /\ UNCHANGED <<ready_queue, priority, stride, pc, ret, panicked, primVars,
                         histVars>>)

\* the comparison off by one: if prio < 1
rejected_below_one(prio) == prio < 1

\* processor.rs:192  if prio < 2 { return -1; }
rejected(prio) == prio < 2

\* processor.rs:192-197  the cells of set_priority
set_priority_cells(t, prio) ==
    IF rejected(prio) THEN <<>>
    ELSE current_task_cells \o <<exclusive_access(task_inner(t)), drop(task_inner(t))>>

\* processor.rs:191-199  set_priority
set_priority(t, prio) ==
    /\ Running(t)
    /\ WithCells(set_priority_cells(t, prio),
          /\ IF rejected(prio)
             THEN /\ ret' = -1
                  /\ UNCHANGED priority
             ELSE /\ priority' = [priority EXCEPT ![t] = prio]
                  /\ ret' = prio
          /\ UNCHANGED <<current, ready_queue, task_status, stride, pc, panicked,
                         primVars, histVars>>)

\* values passed to set_priority
PrioArgs == {-1, 0, 1, 2, 5}

\* the thread stays within the number of enqueues the model follows
CanAdd(t) == adds[t] < MaxAdds

(* --------------------------- blocking mutex --------------------------- *)
\* pop_back() in the place of pop_front()
pop_back(q) ==
    IF q = <<>> THEN [task |-> None, rest |-> q]
    ELSE [task |-> q[Len(q)], rest |-> SubSeq(q, 1, Len(q) - 1)]

\* wait_queue.front(): the waiter is read and stays in the queue
front(q) ==
    IF q = <<>> THEN [task |-> None, rest |-> q]
    ELSE [task |-> Head(q), rest |-> q]

\* mutex.rs:168, semaphore.rs:49  wait_queue.pop_front(): the waiter taken
\* (None if there is none) and the queue that is left
pop_front(q) ==
    IF q = <<>> THEN [task |-> None, rest |-> q]
    ELSE [task |-> Head(q), rest |-> Tail(q)]

\* mutex.rs:151-160  the cells of MutexBlocking::lock
MutexBlocking_lock_cells(t) ==
    IF blocking.locked
    THEN <<exclusive_access(MutexBlocking_inner)>> \o current_task_cells
         \o <<drop(MutexBlocking_inner)>> \o block_current_and_run_next_cells(t)
    ELSE <<exclusive_access(MutexBlocking_inner)>> \o current_task_id_cells(t)
         \o <<drop(MutexBlocking_inner)>>

\* lock() that yields where it should block: suspend_current_and_run_next()
\* in the place of block_current_and_run_next()
MutexBlocking_lock_yields(t) ==
    /\ Running(t)
    /\ WithCells(MutexBlocking_lock_cells(t),
          /\ IF blocking.locked
             THEN /\ blocking' = [blocking EXCEPT !.wait_queue = Append(@, t)]
                  /\ suspend_current_and_run_next(t)
                  /\ pc' = [pc EXCEPT ![t] = "MutexBlocking_lock"]
                  /\ UNCHANGED holders
             ELSE /\ blocking' = [blocking EXCEPT !.locked = TRUE, !.allocated_to = t]
                  /\ holders' = [holders EXCEPT !.blocking = @ \cup {t}]
                  /\ UNCHANGED <<current, task_status, pc, ready_queue, stride, adds,
                                 panicked>>
          /\ UNCHANGED <<priority, ret, spin, sem, res_count, created, downs, logVars,
                         dispatches, rounds>>)

\* mutex.rs:149-161  MutexBlocking::lock, up to its return or its block
MutexBlocking_lock(t) ==
    /\ Running(t)
    /\ WithCells(MutexBlocking_lock_cells(t),
          /\ IF blocking.locked
             THEN /\ blocking' = [blocking EXCEPT !.wait_queue = Append(@, t)]
                  /\ block_current_and_run_next(t)
                  /\ pc' = [pc EXCEPT ![t] = "MutexBlocking_lock"]
                  /\ UNCHANGED holders
             ELSE /\ blocking' = [blocking EXCEPT !.locked = TRUE, !.allocated_to = t]
                  /\ holders' = [holders EXCEPT !.blocking = @ \cup {t}]
                  /\ UNCHANGED <<current, task_status, pc>>
          /\ UNCHANGED <<ready_queue, priority, stride, ret, panicked, spin, sem,
                         res_count, created, downs, logVars, adds, dispatches, rounds>>)

\* mutex.rs:155-161  a woken waiter is dispatched: block_current_and_run_next
\* returns and lock() returns with it
MutexBlocking_lock_resume(t) ==
    /\ ~panicked
    /\ current = t
    /\ pc[t] = "MutexBlocking_lock"
    /\ pc' = [pc EXCEPT ![t] = "user"]
    /\ holders' = [holders EXCEPT !.blocking = @ \cup {t}]
    /\ UNCHANGED <<current, ready_queue, task_status, priority, stride, ret, panicked,
                   syncVars, downs, logVars, adds, dispatches, rounds>>

\* mutex.rs:166-173  the cells of MutexBlocking::unlock
MutexBlocking_unlock_cells ==
    LET popped == pop_front(blocking.wait_queue)
    IN  IF ~blocking.locked
        THEN <<exclusive_access(MutexBlocking_inner)>>
        ELSE <<exclusive_access(MutexBlocking_inner)>>
             \o (IF popped.task # None THEN wakeup_task_cells(popped.task) ELSE <<>>)
             \o <<drop(MutexBlocking_inner)>>

\* unlock() that clears the locked flag also when it wakes a waiter
MutexBlocking_unlock_clears(t) ==
    /\ Running(t)
    /\ WithCells(MutexBlocking_unlock_cells,
          /\ IF ~blocking.locked
             THEN /\ panicked' = TRUE
                  /\ UNCHANGED <<blocking, holders, ready_queue, task_status, stride, adds>>
             ELSE LET popped == pop_front(blocking.wait_queue)
                  IN  /\ holders' = [holders EXCEPT !.blocking = @ \ {t}]
                      /\ blocking' = [blocking EXCEPT !.locked = FALSE,
                                                      !.wait_queue = popped.rest]
                      /\ IF popped.task # None
                         THEN wakeup_task(popped.task)
                         ELSE UNCHANGED <<ready_queue, task_status, stride, adds, panicked>>
          /\ UNCHANGED <<current, priority, pc, ret, spin, sem, res_count, created, downs,
                         logVars, dispatches, rounds>>)

\* unlock() without assert!(mutex_inner.locked)
MutexBlocking_unlock_unasserted(t) ==
    /\ Running(t)
    /\ WithCells(<<exclusive_access(MutexBlocking_inner), drop(MutexBlocking_inner)>>,
          LET popped == pop_front(blocking.wait_queue)
          IN  /\ holders' = [holders EXCEPT !.blocking = @ \ {t}]
              /\ IF popped.task # None
                 THEN /\ blocking' = [blocking EXCEPT !.wait_queue = popped.rest]
                      /\ wakeup_task(popped.task)
                 ELSE /\ blocking' = [blocking EXCEPT !.locked = FALSE]
                      /\ UNCHANGED <<ready_queue, task_status, stride, adds, panicked>>
              /\ UNCHANGED <<current, priority, pc, ret, spin, sem, res_count, created,
                             downs, logVars, dispatches, rounds>>)

\* mutex.rs:164-173  MutexBlocking::unlock
MutexBlocking_unlock(t) ==
    /\ Running(t)
    /\ WithCells(MutexBlocking_unlock_cells,
          /\ IF ~blocking.locked
             THEN \* assert!(mutex_inner.locked) fails
                  /\ panicked' = TRUE
                  /\ UNCHANGED <<blocking, holders, ready_queue, task_status, stride, adds>>
             ELSE LET popped == pop_front(blocking.wait_queue)
                  IN  /\ holders' = [holders EXCEPT !.blocking = @ \ {t}]
                      /\ IF popped.task # None
                         THEN /\ blocking' = [blocking EXCEPT !.wait_queue = popped.rest]
                              /\ wakeup_task(popped.task)
                         ELSE /\ blocking' = [blocking EXCEPT !.locked = FALSE]
                              /\ UNCHANGED <<ready_queue, task_status, stride, adds,
                                             panicked>>
          /\ UNCHANGED <<current, priority, pc, ret, spin, sem, res_count, created, downs,
                         logVars, dispatches, rounds>>)

\* mutex.rs:119-124  MutexBlocking::get_available
MutexBlocking_get_available == IF blocking.locked THEN 0 ELSE 1

\* mutex.rs:126-135  MutexBlocking::get_allocation
MutexBlocking_get_allocation ==
    IF blocking.locked THEN << <<blocking.allocated_to, 1>> >> ELSE <<>>

\* mutex.rs:137-144  MutexBlocking::get_need
MutexBlocking_get_need ==
    [i \in 1 .. Len(blocking.wait_queue) |-> <<blocking.wait_queue[i], 1>>]

\* mutex.rs:142, semaphore.rs:89  tcb.inner_exclusive_access() of each waiter
\* in turn, dropped at the end of the closure
RECURSIVE waiters_cells(_)
waiters_cells(q) ==
    IF q = <<>> THEN <<>>
    ELSE <<exclusive_access(task_inner(Head(q))), drop(task_inner(Head(q)))>>
         \o waiters_cells(Tail(q))

\* mutex.rs:120  MutexBlocking::get_available
MutexBlocking_get_available_cells ==
    <<exclusive_access(MutexBlocking_inner), drop(MutexBlocking_inner)>>

\* mutex.rs:127-134  MutexBlocking::get_allocation
MutexBlocking_get_allocation_cells ==
    <<exclusive_access(MutexBlocking_inner), drop(MutexBlocking_inner)>>

\* mutex.rs:138-143  MutexBlocking::get_need
MutexBlocking_get_need_cells ==
    <<exclusive_access(MutexBlocking_inner)>> \o waiters_cells(blocking.wait_queue)
    \o <<drop(MutexBlocking_inner)>>

(* ------------------------------ spinlock ------------------------------ *)
\* lock() that keeps its borrow of inner over the yield: no drop(inner)
MutexSpin_lock_cells_undropped(t) ==
    IF spin.locked
    THEN <<exclusive_access(MutexSpin_inner)>> \o suspend_current_and_run_next_cells(t)
    ELSE <<exclusive_access(MutexSpin_inner)>> \o current_task_id_cells(t)
         \o <<drop(MutexSpin_inner)>>

\* mutex.rs:47-56  the cells of one turn of the loop of MutexSpin::lock
MutexSpin_lock_cells(t) ==
    IF spin.locked
    THEN <<exclusive_access(MutexSpin_inner), drop(MutexSpin_inner)>>
         \o suspend_current_and_run_next_cells(t)
    ELSE <<exclusive_access(MutexSpin_inner)>> \o current_task_id_cells(t)
         \o <<drop(MutexSpin_inner)>>

\* lock() that records the holder and forgets inner.locked = true
MutexSpin_lock_loop_unmarked(t) ==
    WithCells(MutexSpin_lock_cells(t),
      /\ IF spin.locked
         THEN /\ suspend_current_and_run_next(t)
              /\ pc' = [pc EXCEPT ![t] = "MutexSpin_lock"]
              /\ UNCHANGED <<spin, holders>>
         ELSE /\ spin' = [spin EXCEPT !.allocated_to = t]
              /\ pc' = [pc EXCEPT ![t] = "user"]
              /\ holders' = [holders EXCEPT !.spin = @ \cup {t}]
              /\ UNCHANGED <<current, task_status, ready_queue, stride, adds, panicked>>
      /\ UNCHANGED <<priority, ret, blocking, sem, res_count, created, downs, logVars,
                     dispatches, rounds>>)

\* mutex.rs:46-58  one turn of the loop of MutexSpin::lock
MutexSpin_lock_loop(t) ==
    WithCells(MutexSpin_lock_cells(t),
      /\ IF spin.locked
         THEN /\ suspend_current_and_run_next(t)
              /\ pc' = [pc EXCEPT ![t] = "MutexSpin_lock"]
              /\ UNCHANGED <<spin, holders>>
         ELSE /\ spin' = [spin EXCEPT !.locked = TRUE, !.allocated_to = t]
              /\ pc' = [pc EXCEPT ![t] = "user"]
              /\ holders' = [holders EXCEPT !.spin = @ \cup {t}]
              /\ UNCHANGED <<current, task_status, ready_queue, stride, adds, panicked>>
      /\ UNCHANGED <<priority, ret, blocking, sem, res_count, created, downs, logVars,
                     dispatches, rounds>>)

\* mutex.rs:44-59  MutexSpin::lock is called
MutexSpin_lock(t) == Running(t) /\ MutexSpin_lock_loop(t)

\* mutex.rs:50-51  the yield inside lock() returns: continue
MutexSpin_lock_retry(t) ==
    /\ ~panicked
    /\ current = t
    /\ pc[t] = "MutexSpin_lock"
    /\ MutexSpin_lock_loop(t)

\* mutex.rs:63-65  the cells of MutexSpin::unlock
MutexSpin_unlock_cells == <<exclusive_access(MutexSpin_inner), drop(MutexSpin_inner)>>

\* unlock() that asserts the lock is held, as the blocking mutex does
MutexSpin_unlock_asserted(t) ==
    /\ Running(t)
    /\ WithCells(MutexSpin_unlock_cells,
          /\ panicked' = ~spin.locked
          /\ spin' = [spin EXCEPT !.locked = FALSE]
          /\ holders' = [holders EXCEPT !.spin = @ \ {t}]
          /\ UNCHANGED <<current, ready_queue, task_status, priority, stride, pc, ret,
                         blocking, sem, res_count, created, downs, logVars, adds,
                         dispatches, rounds>>)

\* mutex.rs:61-65  MutexSpin::unlock
MutexSpin_unlock(t) ==
    /\ Running(t)
    /\ WithCells(MutexSpin_unlock_cells,
          /\ spin' = [spin EXCEPT !.locked = FALSE]
          /\ holders' = [holders EXCEPT !.spin = @ \ {t}]
          /\ UNCHANGED <<schedVars, blocking, sem, res_count, created, downs, logVars,
                         adds, dispatches, rounds>>)

\* mutex.rs:69-74  MutexSpin::get_available
MutexSpin_get_available == IF spin.locked THEN 0 ELSE 1

\* mutex.rs:76-84  MutexSpin::get_allocation, where it returns
MutexSpin_get_allocation ==
    IF spin.locked THEN << <<spin.allocated_to, 1>> >> ELSE <<>>

\* mutex.rs:86-88  MutexSpin::get_need
MutexSpin_get_need == <<>>

\* mutex.rs:70  the borrow of the match scrutinee ends with the match
MutexSpin_get_available_cells ==
    <<exclusive_access(MutexSpin_inner), drop(MutexSpin_inner)>>

\* mutex.rs:77-83  the borrow of the match scrutinee (line 77) lasts to the
\* end of the match, so the arm for true borrows the cell again (line 79)
MutexSpin_get_allocation_cells ==
    IF spin.locked
    THEN <<exclusive_access(MutexSpin_inner), exclusive_access(MutexSpin_inner),
           drop(MutexSpin_inner), drop(MutexSpin_inner)>>
    ELSE <<exclusive_access(MutexSpin_inner), drop(MutexSpin_inner)>>

\* mutex.rs:86-88  get_need borrows nothing
MutexSpin_get_need_cells == <<>>

(* ------------------------------ semaphore ----------------------------- *)
\* up() that wakes only while the count stays negative: if inner.count < 0
wakes_below_zero(count) == count < 0

\* semaphore.rs:48  if inner.count <= 0: up() looks for a waiter to wake
wakes(count) == count <= 0

\* down() that blocks also when it took the last unit: if inner.count <= 0
blocks_at_zero(count) == count <= 0

\* semaphore.rs:60  if inner.count < 0: down() blocks
blocks(count) == count < 0

\* up() that forgets inner.count += 1
count_kept(count) == count

\* semaphore.rs:47  inner.count += 1
count_up(count) == count + 1

\* semaphore.rs:43-52  the cells of Semaphore::up
Semaphore_up_cells(t) ==
    LET popped == IF wakes(count_up(sem.count)) THEN pop_front(sem.wait_queue)
                  ELSE [task |-> None, rest |-> sem.wait_queue]
    IN  <<exclusive_access(Semaphore_inner)>> \o current_task_id_cells(t)
        \o (IF popped.task # None THEN wakeup_task_cells(popped.task) ELSE <<>>)
        \o <<drop(Semaphore_inner)>>

\* up() that leaves the processor once it has woken a waiter
Semaphore_up_switches(t) ==
    /\ Running(t)
    /\ SemWithCells(Semaphore_up_cells(t),
          /\ LET count  == count_up(sem.count)
                 popped == IF wakes(count) THEN pop_front(sem.wait_queue)
                                           ELSE [task |-> None, rest |-> sem.wait_queue]
             IN  /\ sem' = [count |-> count,
                            allocated_to |-> sem.allocated_to \ {t},
                            wait_queue |-> popped.rest]
                 /\ IF popped.task # None
                    THEN /\ wakeup_task(popped.task)
                         /\ current' = None
                    ELSE UNCHANGED <<ready_queue, task_status, stride, adds, panicked,
                                     current>>
          /\ downs' = downs - 1
          /\ UNCHANGED <<priority, pc, ret, blocking, spin, res_count, created,
                         holders, dispatches, rounds>>)

\* semaphore.rs:41-53  Semaphore::up
Semaphore_up(t) ==
    /\ Running(t)
    /\ SemWithCells(Semaphore_up_cells(t),
          /\ LET count  == count_up(sem.count)
                 popped == IF wakes(count) THEN pop_front(sem.wait_queue)
                                           ELSE [task |-> None, rest |-> sem.wait_queue]
             IN  /\ sem' = [count |-> count,
                            allocated_to |-> sem.allocated_to \ {t},
                            wait_queue |-> popped.rest]
                 /\ IF popped.task # None
                    THEN wakeup_task(popped.task)
                    ELSE UNCHANGED <<ready_queue, task_status, stride, adds, panicked>>
          /\ downs' = downs - 1
          /\ UNCHANGED <<current, priority, pc, ret, blocking, spin, res_count, created,
                         holders, dispatches, rounds>>)

\* semaphore.rs:58-66  the cells of Semaphore::down
Semaphore_down_cells(t) ==
    IF blocks(sem.count - 1)
    THEN <<exclusive_access(Semaphore_inner)>> \o current_task_cells
         \o <<drop(Semaphore_inner)>> \o block_current_and_run_next_cells(t)
    ELSE <<exclusive_access(Semaphore_inner)>> \o current_task_id_cells(t)
         \o <<drop(Semaphore_inner)>>

\* semaphore.rs:56-68  Semaphore::down, up to its return or its block
Semaphore_down(t) ==
    /\ Running(t)
    /\ SemWithCells(Semaphore_down_cells(t),
          /\ LET count == sem.count - 1
             IN  IF blocks(count)
                 THEN /\ sem' = [sem EXCEPT !.count = count,
                                            !.wait_queue = Append(@, t)]
                      /\ block_current_and_run_next(t)
                      /\ pc' = [pc EXCEPT ![t] = "Semaphore_down"]
                      /\ UNCHANGED downs
                 ELSE /\ sem' = [sem EXCEPT !.count = count,
                                            !.allocated_to = @ \cup {t}]
                      /\ downs' = downs + 1
                      /\ UNCHANGED <<current, task_status, pc>>
          /\ UNCHANGED <<ready_queue, priority, stride, ret, panicked, blocking, spin,
                         res_count, created, holders, adds, dispatches, rounds>>)

\* semaphore.rs:63-68  a woken waiter is dispatched: block_current_and_run_next
\* returns and down() returns with it
Semaphore_down_resume(t) ==
    /\ ~panicked
    /\ current = t
    /\ pc[t] = "Semaphore_down"
    /\ pc' = [pc EXCEPT ![t] = "user"]
    /\ downs' = downs + 1
    /\ UNCHANGED <<current, ready_queue, task_status, priority, stride, ret, panicked,
                   syncVars, holders, adds, dispatches, rounds>>

\* semaphore.rs:72-77  Semaphore::get_available
Semaphore_get_available == IF sem.count < 0 THEN 0 ELSE sem.count

\* the elements of a set of tids in ascending order (BTreeSet iteration)
RECURSIVE Ascending(_)
Ascending(S) ==
    IF S = {} THEN <<>>
    ELSE LET m == CHOOSE x \in S : \A y \in S : x <= y
         IN  <<m>> \o Ascending(S \ {m})

\* semaphore.rs:79-82  Semaphore::get_allocation
Semaphore_get_allocation ==
    LET tids == Ascending(sem.allocated_to)
    IN  [i \in 1 .. Len(tids) |-> <<tids[i], 1>>]

\* semaphore.rs:84-91  Semaphore::get_need
Semaphore_get_need ==
    [i \in 1 .. Len(sem.wait_queue) |-> <<sem.wait_queue[i], 1>>]

\* semaphore.rs:73  Semaphore::get_available
Semaphore_get_available_cells ==
    <<exclusive_access(Semaphore_inner), drop(Semaphore_inner)>>

\* semaphore.rs:80-81  Semaphore::get_allocation
Semaphore_get_allocation_cells ==
    <<exclusive_access(Semaphore_inner), drop(Semaphore_inner)>>

\* semaphore.rs:85-90  Semaphore::get_need
Semaphore_get_need_cells ==
    <<exclusive_access(Semaphore_inner)>> \o waiters_cells(sem.wait_queue)
    \o <<drop(Semaphore_inner)>>

\* the head of a wait queue, if any, may still be enqueued
CanWake(q) == IF q = <<>> THEN TRUE ELSE CanAdd(Head(q))

(* ----------------- scheduler alone: threads only yield ---------------- *)
SchedTids == 0 .. (SchedThreads - 1)

SchedInit == InitWith(0, SchedThreads, {})

SchedNext ==
    \/ run_tasks
    \/ \E t \in SchedTids : CanAdd(t) /\ sys_yield(t)
    \/ \E t \in SchedTids : sys_exit(t)
    \/ \E t \in SchedTids : \E prio \in PrioArgs : set_priority(t, prio)

SchedSpec == SchedInit /\ [][SchedNext]_vars

(* ------------- mutexes used as lock(); critical section; unlock() ------ *)
MutexInit == InitWith(0, NumThreads, {"MutexBlocking", "MutexSpin"})

MutexNext ==
    \/ run_tasks
    \/ \E t \in Tids : CanAdd(t) /\ sys_yield(t)
    \/ \E t \in Tids : t \notin holders.blocking /\ MutexBlocking_lock(t)
    \/ \E t \in Tids : MutexBlocking_lock_resume(t)
    \/ \E t \in Tids : /\ t \in holders.blocking
                       /\ CanWake(blocking.wait_queue)
                       /\ MutexBlocking_unlock(t)
    \/ \E t \in Tids : t \notin holders.spin /\ CanAdd(t) /\ MutexSpin_lock(t)
    \/ \E t \in Tids : CanAdd(t) /\ MutexSpin_lock_retry(t)
    \/ \E t \in Tids : t \in holders.spin /\ MutexSpin_unlock(t)

MutexSpec == MutexInit /\ [][MutexNext]_vars

(* ------------------- semaphore: any down() and up() calls ------------- *)
SemNext ==
    \/ run_tasks
    \/ \E t \in Tids : CanAdd(t) /\ sys_yield(t)
    \/ \E t \in Tids : Semaphore_down(t) /\ UNCHANGED logVars
    \/ \E t \in Tids : Semaphore_down_resume(t) /\ UNCHANGED logVars
    \/ \E t \in Tids : /\ sem.count < MaxCount
                       /\ CanWake(sem.wait_queue)
                       /\ Semaphore_up(t)
                       /\ UNCHANGED logVars

SemInit == \E n \in 0 .. MaxResCount : InitWith(n, NumThreads, {"Semaphore"})

SemSpec == SemInit /\ [][SemNext]_vars

(* ------------- two threads and a semaphore created with count 1 ------- *)
\* calls recorded by sem_log; the log is dropped once it is longer
MaxLog == 4
Overflow == <<"overflow">>
Logged(e) ==
    IF sem_log = Overflow \/ Len(sem_log) >= MaxLog THEN Overflow ELSE Append(sem_log, e)

HandoffInit == InitWith(1, 2, {"Semaphore"})

HandoffNext ==
    \/ run_tasks
    \/ \E t \in Tids : CanAdd(t) /\ sys_yield(t)
    \/ \E t \in Tids : /\ Semaphore_down(t)
                       /\ sem_log' = Logged(<<t, "down">>)
                       /\ units' = [units EXCEPT ![t] =
                                      IF blocks(sem.count - 1) THEN @ ELSE @ + 1]
    \/ \E t \in Tids : /\ Semaphore_down_resume(t)
                       /\ sem_log' = Logged(<<t, "returned">>)
                       /\ units' = [units EXCEPT ![t] = @ + 1]
    \/ \E t \in Tids : /\ sem.count < MaxCount
                       /\ CanWake(sem.wait_queue)
                       /\ Semaphore_up(t)
                       /\ sem_log' = Logged(<<t, "up">>)
                       /\ units' = [units EXCEPT ![t] = @ - 1]

HandoffSpec == HandoffInit /\ [][HandoffNext]_vars

(* ------ one primitive per process: a blocking mutex or a semaphore ----- *)
Has(primitive) == primitive \in created

FifoInit ==
    \E made \in {{"MutexBlocking"}, {"Semaphore"}} :
        \E n \in 0 .. MaxResCount : InitWith(n, NumThreads, made)

FifoNext ==
    \/ run_tasks
    \/ \E t \in Tids : CanAdd(t) /\ sys_yield(t)
    \/ \E t \in Tids : /\ Has("MutexBlocking")
                       /\ t \notin holders.blocking
                       /\ MutexBlocking_lock(t)
    \/ \E t \in Tids : MutexBlocking_lock_resume(t)
    \/ \E t \in Tids : /\ Has("MutexBlocking")
                       /\ t \in holders.blocking
                       /\ CanWake(blocking.wait_queue)
                       /\ MutexBlocking_unlock(t)
    \/ \E t \in Tids : Has("Semaphore") /\ Semaphore_down(t) /\ UNCHANGED logVars
    \/ \E t \in Tids : Semaphore_down_resume(t) /\ UNCHANGED logVars
    \/ \E t \in Tids : /\ Has("Semaphore")
                       /\ sem.count < MaxCount
                       /\ CanWake(sem.wait_queue)
                       /\ Semaphore_up(t)
                       /\ UNCHANGED logVars

FifoSpec == FifoInit /\ [][FifoNext]_vars

(* ------- two threads of priority 2 and 20 that yield for ever --------- *)
\* the priority each of the two threads gives itself
SharePriority(t) == IF t = 0 THEN 2 ELSE 20

ShareInit == InitWith(0, 2, {})

ShareNext ==
    \/ rounds < MaxRounds /\ run_tasks
    \/ \E t \in {0, 1} : /\ priority[t] # SharePriority(t)
                         /\ set_priority(t, SharePriority(t))
    \/ \E t \in {0, 1} : priority[t] = SharePriority(t) /\ sys_yield(t)

ShareSpec == ShareInit /\ [][ShareNext]_vars

(* ------------- trait Resource, called by a running thread -------------- *)
\* the primitive of a process that has created one
TheResource == CHOOSE primitive \in created : TRUE

\* mod.rs:19  Resource::get_available of the primitive
get_available_cells ==
    IF TheResource = "MutexSpin" THEN MutexSpin_get_available_cells
    ELSE IF TheResource = "MutexBlocking" THEN MutexBlocking_get_available_cells
    ELSE Semaphore_get_available_cells

\* mod.rs:21  Resource::get_allocation of the primitive
get_allocation_cells ==
    IF TheResource = "MutexSpin" THEN MutexSpin_get_allocation_cells
    ELSE IF TheResource = "MutexBlocking" THEN MutexBlocking_get_allocation_cells
    ELSE Semaphore_get_allocation_cells

\* mod.rs:23  Resource::get_need of the primitive
get_need_cells ==
    IF TheResource = "MutexSpin" THEN MutexSpin_get_need_cells
    ELSE IF TheResource = "MutexBlocking" THEN MutexBlocking_get_need_cells
    ELSE Semaphore_get_need_cells

\* a query writes nothing
Query(t, cells) ==
    /\ Running(t)
    /\ created # {}
    /\ WithCells(cells, UNCHANGED <<schedVars, primVars, histVars>>)

get_available(t) == Query(t, get_available_cells)
get_allocation(t) == Query(t, get_allocation_cells)
get_need(t) == Query(t, get_need_cells)

(* ------ one primitive per process, called in any order by any thread --- *)
AnyInit ==
    \E made \in {{"MutexSpin"}, {"MutexBlocking"}, {"Semaphore"}} :
        \E n \in 0 .. MaxResCount : InitWith(n, AnyThreads, made)

AnyNext ==
    \/ run_tasks
    \/ \E t \in Tids : CanAdd(t) /\ sys_yield(t)
    \/ \E t \in Tids : Has("MutexSpin") /\ CanAdd(t) /\ MutexSpin_lock(t)
    \/ \E t \in Tids : CanAdd(t) /\ MutexSpin_lock_retry(t)
    \/ \E t \in Tids : Has("MutexSpin") /\ MutexSpin_unlock(t)
    \/ \E t \in Tids : Has("MutexBlocking") /\ MutexBlocking_lock(t)
    \/ \E t \in Tids : MutexBlocking_lock_resume(t)
    \/ \E t \in Tids : /\ Has("MutexBlocking")
                       /\ CanWake(blocking.wait_queue)
                       /\ MutexBlocking_unlock(t)
    \/ \E t \in Tids : Has("Semaphore") /\ Semaphore_down(t) /\ UNCHANGED logVars
    \/ \E t \in Tids : Semaphore_down_resume(t) /\ UNCHANGED logVars
    \/ \E t \in Tids : /\ Has("Semaphore")
                       /\ sem.count < MaxCount
                       /\ CanWake(sem.wait_queue)
                       /\ Semaphore_up(t)
                       /\ UNCHANGED logVars
    \/ \E t \in Tids : get_available(t)
    \/ \E t \in Tids : get_allocation(t)
    \/ \E t \in Tids : get_need(t)

AnySpec == AnyInit /\ [][AnyNext]_vars

(* --- one primitive per process, mutexes used as lock(); ...; unlock() --- *)
LockInit ==
    \E made \in {{"MutexSpin"}, {"MutexBlocking"}, {"Semaphore"}} :
        \E n \in 0 .. MaxResCount : InitWith(n, NumThreads, made)

LockNext ==
    \/ run_tasks
    \/ \E t \in Tids : CanAdd(t) /\ sys_yield(t)
    \/ \E t \in Tids : /\ Has("MutexSpin")
                       /\ t \notin holders.spin
                       /\ CanAdd(t)
                       /\ MutexSpin_lock(t)
    \/ \E t \in Tids : CanAdd(t) /\ MutexSpin_lock_retry(t)
    \/ \E t \in Tids : Has("MutexSpin") /\ t \in holders.spin /\ MutexSpin_unlock(t)
    \/ \E t \in Tids : /\ Has("MutexBlocking")
                       /\ t \notin holders.blocking
                       /\ MutexBlocking_lock(t)
    \/ \E t \in Tids : MutexBlocking_lock_resume(t)
    \/ \E t \in Tids : /\ Has("MutexBlocking")
                       /\ t \in holders.blocking
                       /\ CanWake(blocking.wait_queue)
                       /\ MutexBlocking_unlock(t)
    \/ \E t \in Tids : Has("Semaphore") /\ Semaphore_down(t) /\ UNCHANGED logVars
    \/ \E t \in Tids : Semaphore_down_resume(t) /\ UNCHANGED logVars
    \/ \E t \in Tids : /\ Has("Semaphore")
                       /\ sem.count < MaxCount
                       /\ CanWake(sem.wait_queue)
                       /\ Semaphore_up(t)
                       /\ UNCHANGED logVars

LockSpec == LockInit /\ [][LockNext]_vars

(* ----------- a blocking mutex and a semaphore in one process ----------- *)
BothInit == InitWith(0, AnyThreads, {"MutexBlocking", "Semaphore"})

BothNext ==
    \/ run_tasks
    \/ \E t \in Tids : CanAdd(t) /\ sys_yield(t)
    \/ \E t \in Tids : set_priority(t, priority[t])
    \/ \E t \in Tids : t \notin holders.blocking /\ MutexBlocking_lock(t)
    \/ \E t \in Tids : MutexBlocking_lock_resume(t)
    \/ \E t \in Tids : /\ t \in holders.blocking
                       /\ CanWake(blocking.wait_queue)
                       /\ MutexBlocking_unlock(t)
    \/ \E t \in Tids : Semaphore_down(t) /\ UNCHANGED logVars
    \/ \E t \in Tids : Semaphore_down_resume(t) /\ UNCHANGED logVars
    \/ \E t \in Tids : /\ sem.count < MaxCount
                       /\ CanWake(sem.wait_queue)
                       /\ Semaphore_up(t)
                       /\ UNCHANGED logVars
    \/ \E t \in Tids : Query(t, MutexBlocking_get_need_cells)
    \/ \E t \in Tids : Query(t, Semaphore_get_need_cells)

BothSpec == BothInit /\ [][BothNext]_vars

(* ------ the same process with threads that exit: no set_priority ------- *)
LifeNext ==
    \/ run_tasks
    \/ \E t \in Tids : CanAdd(t) /\ sys_yield(t)
    \/ \E t \in Tids : sys_exit(t)
    \/ \E t \in Tids : t \notin holders.blocking /\ MutexBlocking_lock(t)
    \/ \E t \in Tids : MutexBlocking_lock_resume(t)
    \/ \E t \in Tids : /\ t \in holders.blocking
                       /\ CanWake(blocking.wait_queue)
                       /\ MutexBlocking_unlock(t)
    \/ \E t \in Tids : Semaphore_down(t) /\ UNCHANGED logVars
    \/ \E t \in Tids : Semaphore_down_resume(t) /\ UNCHANGED logVars
    \/ \E t \in Tids : /\ sem.count < MaxCount
                       /\ CanWake(sem.wait_queue)
                       /\ Semaphore_up(t)
                       /\ UNCHANGED logVars

LifeSpec == BothInit /\ [][LifeNext]_vars

(* ------- two threads of priority 2 after a long run of yields ---------- *)
\* the stride s of a thread after 2^35 - 2 more add() calls at priority 2:
\* s + (2^35 - 2) * 2^29 = 2^64 - 2^30 + s, for a stride s below 2^30
AfterLongRun(s) == [top |-> TopMod - 1, mid |-> Limb - 1, lo |-> s.lo]

\* Both threads set priority 2 when first dispatched and have yielded in turn
\* 2^35 - 2 times each since; the idle loop is about to fetch.
WrapInit ==
    /\ current = None
    /\ ready_queue =
          <<[task |-> 1, stride |-> AfterLongRun(WrappingAdd(ZeroStride, pass(InitPriority)))],
            [task |-> 0, stride |-> AfterLongRun(MainStride)]>>
    /\ task_status = [t \in Tids |-> IF t < 2 THEN "Ready" ELSE "New"]
    /\ priority = [t \in Tids |-> IF t < 2 THEN 2 ELSE InitPriority]
    /\ stride = [t \in Tids |->
                   IF t = 0 THEN AfterLongRun(MainStride)
                   ELSE IF t = 1
                        THEN AfterLongRun(WrappingAdd(ZeroStride, pass(InitPriority)))
                        ELSE ZeroStride]
    /\ pc = [t \in Tids |-> "user"]
    /\ ret = 0
    /\ panicked = FALSE
    /\ blocking = [locked |-> FALSE, allocated_to |-> 0, wait_queue |-> <<>>]
    /\ spin = [locked |-> FALSE, allocated_to |-> 0]
    /\ res_count = 0
    /\ created = {}
    /\ borrowed = {}
    /\ sem = [count |-> 0, allocated_to |-> {}, wait_queue |-> <<>>]
    /\ holders = [blocking |-> {}, spin |-> {}]
    /\ downs = 0
    /\ sem_log = <<>>
    /\ units = [t \in Tids |-> 0]
    /\ adds = [t \in Tids |-> 0]
    /\ dispatches = [t \in Tids |-> 0]
    /\ rounds = 0

WrapSpec == WrapInit /\ [][SchedNext]_vars

(* -------------- threads that yield for as long as they run ------------- *)
\* values passed to set_priority: the least accepted one and one above
\* BIG_STRIDE
LargePrioArgs == {2, BIG_STRIDE + 1}

\* a yield is followed while the thread is within the number of enqueues the
\* model follows, or while the enqueue leaves its stride where it was
CanYield(t) == CanAdd(t) \/ pass(priority[t]) = 0

\* A thread sets its priority in its first time slice, yields in every time
\* slice and exits when its yields are no longer followed.
YieldNext ==
    \/ run_tasks
    \/ \E t \in SchedTids : CanYield(t) /\ sys_yield(t)
    \/ \E t \in SchedTids : ~CanYield(t) /\ sys_exit(t)
    \/ \E t \in SchedTids : \E prio \in LargePrioArgs :
          dispatches[t] = 1 /\ set_priority(t, prio)

\* the idle loop fetches whenever no thread runs, and a dispatched thread
\* eventually yields or exits
YieldSpec ==
    /\ SchedInit
    /\ [][YieldNext]_vars
    /\ WF_vars(run_tasks)
    /\ WF_vars(\E t \in SchedTids : IF CanYield(t) THEN sys_yield(t) ELSE sys_exit(t))

(* ---- threads that unlock what they lock and post what is waited for --- *)
AnyTids == 0 .. (AnyThreads - 1)

\* a thread that is neither new nor exited
Live(t) == task_status[t] \notin {"New", "Exited"}

\* down() by a thread that holds no mutex, and that leaves a thread able to
\* call up() when it blocks
MayDown(t) ==
    /\ t \notin holders.blocking
    /\ CanYield(t)
    /\ blocks(sem.count - 1) =>
          \E u \in AnyTids \ {t} : Live(u) /\ ~InQueue(sem.wait_queue, u)

\* a thread exits when its yields are no longer followed, it holds no mutex
\* and no thread waits for an up()
MayExit(t) ==
    /\ ~CanYield(t)
    /\ t \notin holders.blocking
    /\ sem.wait_queue = <<>>

\* the way a running thread leaves the processor by itself
Leave(t) == IF CanYield(t) THEN sys_yield(t) ELSE MayExit(t) /\ sys_exit(t)

\* the stride s (below 2^30) of a thread after MaxRounds more add() calls at
\* the initial priority: s + MaxRounds * (BIG_STRIDE / 16)
AfterRounds(s) ==
    LET per == Limb \div pass(InitPriority)
        sum == s.lo + (MaxRounds % per) * pass(InitPriority)
    IN  [top |-> 0, mid |-> (MaxRounds \div per) + (sum \div Limb), lo |-> sum % Limb]

\* A process with a blocking mutex or with a semaphore (created with 0 units),
\* not used yet, whose threads have yielded in turn MaxRounds times each at the
\* initial priority since start-up; the idle loop is about to fetch.
WakeInit ==
    /\ current = None
    /\ ready_queue =
          [i \in 1 .. AnyThreads |->
              IF i < AnyThreads
              THEN [task |-> i,
                    stride |-> AfterRounds(WrappingAdd(ZeroStride, pass(InitPriority)))]
              ELSE [task |-> 0, stride |-> AfterRounds(MainStride)]]
    /\ task_status = [t \in Tids |-> IF t < AnyThreads THEN "Ready" ELSE "New"]
    /\ priority = [t \in Tids |-> InitPriority]
    /\ stride = [t \in Tids |->
                   IF t = 0 THEN AfterRounds(MainStride)
                   ELSE IF t < AnyThreads
                        THEN AfterRounds(WrappingAdd(ZeroStride, pass(InitPriority)))
                        ELSE ZeroStride]
    /\ pc = [t \in Tids |-> "user"]
    /\ ret = 0
    /\ panicked = FALSE
    /\ blocking = [locked |-> FALSE, allocated_to |-> 0, wait_queue |-> <<>>]
    /\ spin = [locked |-> FALSE, allocated_to |-> 0]
    /\ res_count = 0
    /\ created \in {{"MutexBlocking"}, {"Semaphore"}}
    /\ borrowed = {}
    /\ sem = [count |-> 0, allocated_to |-> {}, wait_queue |-> <<>>]
    /\ holders = [blocking |-> {}, spin |-> {}]
    /\ downs = 0
    /\ sem_log = <<>>
    /\ units = [t \in Tids |-> 0]
    /\ adds = [t \in Tids |-> 0]
    /\ dispatches = [t \in Tids |-> IF t < AnyThreads THEN MaxRounds ELSE 0]
    /\ rounds = MaxRounds

WakeNext ==
    \/ run_tasks
    \/ \E t \in AnyTids : CanYield(t) /\ sys_yield(t)
    \/ \E t \in AnyTids : MayExit(t) /\ sys_exit(t)
    \/ \E t \in AnyTids : \E prio \in LargePrioArgs : set_priority(t, prio)
    \/ \E t \in AnyTids : /\ Has("MutexBlocking")
                          /\ t \notin holders.blocking
                          /\ CanYield(t)
                          /\ MutexBlocking_lock(t)
    \/ \E t \in AnyTids : MutexBlocking_lock_resume(t)
    \/ \E t \in AnyTids : /\ Has("MutexBlocking")
                          /\ t \in holders.blocking
                          /\ MutexBlocking_unlock(t)
    \/ \E t \in AnyTids : /\ Has("Semaphore")
                          /\ MayDown(t)
                          /\ Semaphore_down(t)
                          /\ UNCHANGED logVars
    \/ \E t \in AnyTids : Semaphore_down_resume(t) /\ UNCHANGED logVars
    \/ \E t \in AnyTids : /\ Has("Semaphore")
                          /\ sem.count < MaxCount
                          /\ Semaphore_up(t)
                          /\ UNCHANGED logVars

\* The idle loop fetches whenever no thread runs; a dispatched thread returns
\* from the call it was blocked in and eventually yields or exits; a thread
\* that holds the mutex eventually calls unlock(); while a thread waits in
\* down() some thread eventually calls up().
WakeSpec ==
    /\ WakeInit
    /\ [][WakeNext]_vars
    /\ WF_vars(run_tasks)
    /\ WF_vars(\E t \in AnyTids : MutexBlocking_lock_resume(t))
    /\ WF_vars(\E t \in AnyTids : Semaphore_down_resume(t) /\ UNCHANGED logVars)
    /\ SF_vars(\E t \in AnyTids : Leave(t))
    /\ \A t \in AnyTids : SF_vars(t \in holders.blocking /\ MutexBlocking_unlock(t))
    /\ SF_vars(\E t \in AnyTids : /\ sem.wait_queue # <<>>
                                   /\ Semaphore_up(t)
                                   /\ UNCHANGED logVars)

(* ============================== claims ================================ *)
\* a waiter that unlock() or up() has woken and that has not yet returned
\* from its lock() or down()
HandedOver(t) == pc[t] = "MutexBlocking_lock" /\ ~InQueue(blocking.wait_queue, t)
Woken(t) == pc[t] = "Semaphore_down" /\ ~InQueue(sem.wait_queue, t)

\* C1 Mutual exclusion: with threads that lock(), run a critical section
\* (yields allowed) and unlock(), at most one thread at a time is between its
\* return from lock() and its unlock(), for the blocking mutex and for the
\* spinlock.
C1_MutualExclusion ==
    /\ Cardinality(holders.blocking) <= 1
    /\ Cardinality(holders.spin) <= 1

\* both mutexes are held while another thread waits for each of them
C1_Witness ==
    /\ holders.blocking # {}
    /\ blocking.wait_queue # <<>>
    /\ holders.spin # {}
    /\ \E t \in Tids : pc[t] = "MutexSpin_lock"

\* only the head of q may leave q in a step, it is then on the ready queue,
\* and the threads that stay keep their order in front of any new blocker
FifoStep(q, q2, rq2) ==
    IF \E i \in 1 .. Len(q) : ~InQueue(q2, q[i])
    THEN /\ q2 = Tail(q)
         /\ \E j \in 1 .. Len(rq2) : rq2[j].task = Head(q)
    ELSE /\ Len(q2) >= Len(q)
         /\ SubSeq(q2, 1, Len(q)) = q

\* C2 FIFO wakeup within one primitive: unlock() (up()) wakes the thread that
\* blocked first on the mutex (semaphore); no later blocker is woken before
\* an earlier one.
C2_FifoWakeup ==
    [][/\ FifoStep(blocking.wait_queue, blocking.wait_queue', ready_queue')
       /\ FifoStep(sem.wait_queue, sem.wait_queue', ready_queue')]_vars

\* the first blocker of the mutex has been woken, a later one still waits
C2_Witness ==
    \E t, u \in Tids :
        /\ HandedOver(t)
        /\ InReady(t)
        /\ InQueue(blocking.wait_queue, u)

\* the same for the semaphore
C2_WitnessSemaphore ==
    \E t, u \in Tids :
        /\ Woken(t)
        /\ InReady(t)
        /\ InQueue(sem.wait_queue, u)

\* C3 Blocking-mutex handoff: from an unlock() that wakes a waiter until that
\* waiter's own unlock() the mutex reports available() = 0, and no other
\* thread acquires it in between: a thread calling lock() is queued.
C3_Handoff ==
    /\ \A t \in Tids :
          HandedOver(t) =>
              /\ MutexBlocking_get_available = 0
              /\ holders.blocking = {}
              /\ \A u \in Tids : HandedOver(u) => u = t
    /\ holders.blocking # {} => MutexBlocking_get_available = 0

\* a waiter has been woken and a third thread is queued behind it
C3_Witness ==
    \E t, u \in Tids :
        /\ HandedOver(t)
        /\ task_status[t] = "Ready"
        /\ u # t
        /\ blocking.wait_queue = <<u>>
        /\ blocking.locked

\* C4 allocation() of the blocking mutex is [(tid of the holder, 1)] whenever
\* a thread is between its return from lock() and its unlock(), also when it
\* got the mutex by being woken.
C4_AllocationIsHolder ==
    \A t \in holders.blocking : MutexBlocking_get_allocation = << <<t, 1>> >>

\* C5 Semaphore conservation: count + waiters = initial count - (completed
\* down() calls not yet matched by an up()).
C5_Conservation ==
    sem.count + Len(sem.wait_queue) = res_count - downs

\* C5 as amended: a waiter that up() has woken and that has not yet returned
\* from down() counts as well.
C5_ConservationWithWoken ==
    sem.count + Len(sem.wait_queue) + Cardinality({t \in Tids : Woken(t)})
        = res_count - downs

\* one waiter has been woken and has not yet run, another still waits
C5_Witness ==
    /\ \E t \in Tids : Woken(t) /\ InReady(t)
    /\ sem.wait_queue # <<>>
    /\ sem.count < 0

\* C6 Semaphore waiter count: count < 0 means exactly -count waiters,
\* count >= 0 means none; so available() = max(count, 0) and up() finds a
\* waiter whenever it pops.
C6_WaiterCount ==
    /\ sem.count < 0 => Len(sem.wait_queue) = -sem.count
    /\ sem.count >= 0 => sem.wait_queue = <<>>
    /\ Semaphore_get_available = (IF sem.count > 0 THEN sem.count ELSE 0)
    /\ wakes(sem.count + 1) => sem.wait_queue # <<>>

\* two threads wait
C6_Witness == sem.count = -2 /\ Len(sem.wait_queue) = 2

\* C7 Semaphore handoff scenario: count 1; A down(), B down() (blocks),
\* A up(), B returns from down(): then allocation() = [(B, 1)], need() is
\* empty and available() = 0.
C7_HandoffScenario ==
    \A a, b \in Tids :
        (/\ a # b
         /\ res_count = 1
         /\ sem_log = << <<a, "down">>, <<b, "down">>, <<a, "up">>, <<b, "returned">> >>)
        => /\ Semaphore_get_allocation = << <<b, 1>> >>
           /\ Semaphore_get_need = <<>>
           /\ Semaphore_get_available = 0

C9_LowNumberRunsMore ==
    rounds >= ShareWarmup => dispatches[0] > dispatches[1]

\* C9 as amended: the thread of priority 20 is dispatched more often, ten
\* times as often as the thread of priority 2 up to a bounded difference.
C9_HighNumberRunsMore ==
    /\ rounds >= ShareWarmup => dispatches[1] > dispatches[0]
    /\ dispatches[1] <= 10 * dispatches[0] + 10
    /\ dispatches[1] >= 10 * dispatches[0] - 20

\* after the run both threads have been dispatched, with their priorities set
C9_Witness ==
    /\ rounds = MaxRounds
    /\ priority[0] = 2
    /\ priority[1] = 20
    /\ dispatches[0] >= 2

\* C10 set_priority validation: v < 2 returns -1 and leaves the priority,
\* v >= 2 returns v and sets the priority, and the next add() raises the
\* stride by BIG_STRIDE / v; the priority is always >= 2 and add() never
\* divides by zero.
C10_SetPriority ==
    [][/\ \A t \in Tids : \A v \in PrioArgs :
             set_priority(t, v) =>
                 IF v < 2 THEN ret' = -1 /\ priority' = priority
                 ELSE ret' = v /\ priority' = [priority EXCEPT ![t] = v]
       /\ \A t \in Tids :
             /\ priority'[t] >= 2
             /\ stride'[t] # stride[t] =>
                    /\ stride'[t] = WrappingAdd(stride[t], BIG_STRIDE \div priority[t])
                    /\ StrideGT(stride'[t], stride[t])
       /\ ~panicked']_vars

\* a thread was enqueued with priority 5, and a call was rejected
C10_Witness ==
    /\ ret = -1
    /\ \E t \in Tids :
          /\ priority[t] = 5
          /\ InReady(t)
          /\ stride[t] = WrappingAdd(MainStride, BIG_STRIDE \div 5)

\* C11 Spinlock unlock is permissive and idempotent: unlock() by any thread on
\* a spinlock in any state raises no fault and leaves it unlocked, on an
\* unlocked spinlock it changes nothing, and it never wakes or enqueues a
\* thread.
C11_SpinUnlockPermissive ==
    [][\A t \in Tids :
          MutexSpin_unlock(t) =>
              /\ ~panicked'
              /\ ~spin'.locked
              /\ ~spin.locked => spin' = spin
              /\ Running(t)'
              /\ UNCHANGED <<current, ready_queue, task_status, priority, stride, pc,
                             borrowed>>]_vars

\* a thread that does not hold the spinlock has unlocked it, it may call
\* unlock() again, and a thread that yielded in lock() has not been woken
C11_Witness ==
    /\ Has("MutexSpin")
    /\ ~spin.locked
    /\ holders.spin # {}
    /\ \E t \in Tids : Running(t) /\ t \notin holders.spin
    /\ \E u \in Tids : pc[u] = "MutexSpin_lock" /\ InReady(u)

\* C12 Blocking-mutex misuse is detected: unlock() of a blocking mutex faults
\* exactly when the locked flag is false, and the fault changes neither the
\* locked flag nor the wait queue nor the ready queue.
C12_UnlockAsserts ==
    [][\A t \in Tids :
          MutexBlocking_unlock(t) =>
              /\ panicked' <=> ~blocking.locked
              /\ panicked' => UNCHANGED <<blocking, ready_queue>>]_vars

\* unlock() of a mutex that is not held has stopped the kernel
C12_Witness ==
    /\ Has("MutexBlocking")
    /\ panicked
    /\ ~blocking.locked
    /\ \E t \in Tids : current = t /\ pc[t] = "user"

\* C13 Resource-accounting queries are fault-free and side-effect-free:
\* available(), allocation() and need() of every primitive return in every
\* reachable state, borrow no cell that is already held and leave the state
\* as it was; allocation() of a locked spinlock returns [(holder tid, 1)].
C13_QueriesFaultFree ==
    [][\A t \in Tids :
          (get_available(t) \/ get_allocation(t) \/ get_need(t)) =>
              /\ ~panicked'
              /\ UNCHANGED <<schedVars, primVars, borrowed>>
              /\ (Has("MutexSpin") /\ spin.locked) =>
                     MutexSpin_get_allocation = << <<spin.allocated_to, 1>> >>]_vars

\* C14 No exclusive-access cell is held across a suspension: after every
\* kernel entry, at its __switch (run_tasks into a thread; schedule back to
\* idle from the yield of MutexSpin::lock and the block of MutexBlocking::lock
\* and Semaphore::down) or at its return, no cell is borrowed, and no
\* acquisition has hit the held-cell fault.
C14_NoCellAcrossSuspension ==
    /\ borrowed = {}
    /\ ~panicked

\* a thread has yielded inside MutexSpin::lock and the dispatch loop has
\* switched into the holder since
C14_Witness ==
    \E t, u \in Tids :
        /\ pc[t] = "MutexSpin_lock"
        /\ InReady(t)
        /\ current = u
        /\ u \in holders.spin
        /\ adds[u] > 0

\* a thread has blocked inside MutexBlocking::lock and another has run since
C14_WitnessBlocking ==
    \E t, u \in Tids :
        /\ InQueue(blocking.wait_queue, t)
        /\ task_status[t] = "Blocked"
        /\ current = u

\* a thread has blocked inside Semaphore::down and another has run since
C14_WitnessSemaphore ==
    \E t, u \in Tids :
        /\ InQueue(sem.wait_queue, t)
        /\ task_status[t] = "Blocked"
        /\ current = u

\* C15 Semaphore allocation is exact: between calls a tid is in allocated_to
\* if and only if the thread holds a unit, and every thread in allocated_to
\* holds exactly one unit (its completed down() calls minus its up() calls
\* is 1), whether its down() returned at once or after a wakeup.
C15_AllocationExact ==
    \A t \in Tids :
        /\ t \in sem.allocated_to <=> units[t] >= 1
        /\ t \in sem.allocated_to => units[t] = 1

\* C16 Blocked stays blocked: a thread in the wait queue of the mutex (of the
\* semaphore) is neither in the ready queue nor running, and it stays so
\* over every step except an unlock() (up()) of that primitive that pops it
\* as the head of the queue and puts it on the ready queue.
C16_BlockedStaysBlocked ==
    [][\A t \in Tids :
          /\ InQueue(blocking.wait_queue, t) =>
                 /\ ~InReady(t)
                 /\ current # t
                 /\ \/ /\ InQueue(blocking.wait_queue', t)
                       /\ ~InReady(t)'
                       /\ current' # t
                    \/ /\ \E u \in Tids : MutexBlocking_unlock(u)
                       /\ Head(blocking.wait_queue) = t
                       /\ InReady(t)'
          /\ InQueue(sem.wait_queue, t) =>
                 /\ ~InReady(t)
                 /\ current # t
                 /\ \/ /\ InQueue(sem.wait_queue', t)
                       /\ ~InReady(t)'
                       /\ current' # t
                    \/ /\ \E u \in Tids : Semaphore_up(u)
                       /\ Head(sem.wait_queue) = t
                       /\ InReady(t)']_vars

\* a thread waits for the mutex since its first dispatch, and the holder has
\* been dispatched again, has set its priority and has raised the semaphore
C16_Witness ==
    \E t, u \in Tids :
        /\ InQueue(blocking.wait_queue, t)
        /\ adds[t] = 0
        /\ holders.blocking = {u}
        /\ current = u
        /\ dispatches[u] >= 2
        /\ ret = InitPriority
        /\ sem.count = 1

\* C17 Wakeup does not switch: unlock() of the blocking mutex and up() of the
\* semaphore put at most one thread, the head of the wait queue, on the ready
\* queue and return to the caller, which is still the running thread; a
\* thread becomes the running thread only when the dispatch loop, with no
\* thread running, fetches it from the front of the ready queue.
C17_WakeupDoesNotSwitch ==
    [][/\ \A t \in Tids :
             (MutexBlocking_unlock(t) \/ Semaphore_up(t)) =>
                 LET q     == IF MutexBlocking_unlock(t) THEN blocking.wait_queue
                              ELSE sem.wait_queue
                     woken == {w \in Tids : InReady(w)' /\ ~InReady(w)}
                 IN  /\ current' = t
                     /\ task_status'[t] = "Running"
                     /\ pc'[t] = "user"
                     /\ Cardinality(woken) <= 1
                     /\ Len(ready_queue') = Len(ready_queue) + Cardinality(woken)
                     /\ \A w \in woken : q # <<>> /\ w = Head(q) /\ w # t
       /\ \A w \in Tids :
             (current' = w /\ current # w) =>
                 /\ current = None
                 /\ ready_queue # <<>>
                 /\ Head(ready_queue).task = w
                 /\ ready_queue' = Tail(ready_queue)]_vars

\* unlock() has woken a waiter and has returned to its caller, which runs on
C17_Witness ==
    \E t, w \in Tids :
        /\ Running(t)
        /\ t \notin holders.blocking
        /\ blocking.locked
        /\ HandedOver(w)
        /\ InReady(w)
        /\ adds[w] >= 1

\* the same for up() of the semaphore
C17_WitnessSemaphore ==
    \E t, w \in Tids :
        /\ Running(t)
        /\ Woken(w)
        /\ InReady(w)
        /\ adds[w] >= 1

\* C18 Stride never decreases: the stride of a thread after add() is greater
\* than or equal to its stride before, the addition stride + BIG_STRIDE /
\* priority never wraps around the usize, and nothing but add() changes a
\* stride.
C18_StrideNeverDecreases ==
    [][\A t \in Tids :
          /\ StrideLE(stride[t], stride'[t])
          /\ stride'[t] # stride[t] =>
                 /\ ~Overflows(stride[t], pass(priority[t]))
                 /\ stride'[t] = WrappingAdd(stride[t], pass(priority[t]))
                 /\ InReady(t)'
                 /\ ~InReady(t)]_vars

\* the number of entries that thread t has in the ready queue and in the wait
\* queues of the two primitives
ReadyEntries(t) == Cardinality({i \in 1 .. Len(ready_queue) : ready_queue[i].task = t})
WaitEntries(q, t) == Cardinality({i \in 1 .. Len(q) : q[i] = t})
Entries(t) ==
    ReadyEntries(t) + WaitEntries(blocking.wait_queue, t) + WaitEntries(sem.wait_queue, t)

\* C19 Single location per thread: when the idle loop is about to fetch, every
\* thread that has not exited has exactly one entry, in the ready queue or in
\* the wait queue of one primitive; a thread that is executing is the one in
\* the current slot and has no entry in the ready queue or in a wait queue.
C19_SingleLocation ==
    ~panicked =>
        IF current = None
        THEN \A t \in Tids : Entries(t) = IF Live(t) THEN 1 ELSE 0
        ELSE /\ current \in Tids
             /\ Live(current)
             /\ Entries(current) = 0
             /\ \A t \in Tids \ {current} : Entries(t) = IF Live(t) THEN 1 ELSE 0

\* the idle loop is about to fetch with one thread ready and the other in the
\* wait queue of the blocking mutex
C19_Witness ==
    /\ ~panicked
    /\ current = None
    /\ \E t \in Tids : ReadyEntries(t) = 1
    /\ \E t \in Tids : WaitEntries(blocking.wait_queue, t) = 1

\* a thread executes after unlock() has moved a waiter to the ready queue
C19_WitnessExecuting ==
    /\ ~panicked
    /\ current \in Tids
    /\ current \in holders.blocking
    /\ \E t \in Tids : WaitEntries(sem.wait_queue, t) = 1

\* the idle loop is about to fetch after a thread has exited
C19_WitnessExited ==
    /\ ~panicked
    /\ current = None
    /\ \E t \in Tids : task_status[t] = "Exited"
    /\ \E t \in Tids : WaitEntries(sem.wait_queue, t) = 1

\* C20 No starvation in the ready queue: when no stride overflows and every
\* dispatched thread eventually yields or exits, a thread that add() has put
\* in the ready queue is eventually fetched and dispatched by run_tasks,
\* whatever the priorities (>= 2) of the threads that keep being re-added.
C20_NoStarvation ==
    \A t \in SchedTids : (InReady(t) /\ ~panicked) ~> (current = t)

\* C21 No lost wakeup: when every thread that returns from lock() eventually
\* calls unlock(), every running thread eventually yields, blocks or exits and
\* up() is called while a thread waits, a thread that blocks in
\* MutexBlocking::lock is eventually woken, dispatched and returns from lock()
\* holding the mutex, and a thread that blocks in Semaphore::down eventually
\* returns from down().
C21_NoLostWakeup ==
    \A t \in AnyTids :
        /\ (pc[t] = "MutexBlocking_lock" /\ ~panicked)
              ~> (pc[t] = "user" /\ t \in holders.blocking)
        /\ (pc[t] = "Semaphore_down" /\ ~panicked) ~> (pc[t] = "user")

====
